---- MODULE Spec2Model ----
(***************************************************************************)
(* Model of src/assistant.js: the command-line front end of ThingEngine.   *)
(*                                                                         *)
(* The program is event driven.  readline emits 'line' and 'SIGINT'        *)
(* events; every line listener call (_onLine) wraps the dispatch in        *)
(* Q.try, which runs the function in a later turn of Q's task queue, and   *)
(* chains .then(prompt).done().  The model keeps, per received line, the   *)
(* position of that promise chain:                                         *)
(*   queued     Q.try has been called, its function has not run yet        *)
(*   pending    the handler returned a deferred collaborator result        *)
(*   fulfilled  the chain's first promise is fulfilled, .then not yet run  *)
(*   rejected   the handler threw or its deferred result was rejected      *)
(*   prompted   the .then callback ran (rl.prompt() was called)            *)
(* Q drains its task queue (process.nextTick) before the next I/O event,   *)
(* so input events are only taken while no task is waiting, except that    *)
(* readline emits all lines of one input chunk in one synchronous block.   *)
(***************************************************************************)
EXTENDS Integers, Sequences, FiniteSets, TLC

\* ------------------------------------------------------------------ bounds
\* lines typed in a session; in an OAuth pairing session; in a diagnostic session
MaxLines == 2
MaxOAuthLines == 3
MaxDiagLines == 1
\* diagnostic queries that settle in a session
MaxDiagSettled == 4
\* replies the assistant core renders per command
MaxSend == 1
\* lines typed in a pairing session
MaxPairLines == 3
\* lines typed in a session of any commands; in a session with unknown commands
MaxDispatchLines == 1
MaxUnknownLines == 2
\* lines typed in a session of app commands
MaxAppLines == 2
\* lines typed in a session of start-oauth and complete-oauth commands
MaxHandoffLines == 3
\* queries of one diagnostic battery that settle
MaxBatterySettled == 5

\* ------------------------------------------------------- JavaScript values
\* undefined as a character (line[k] past the end) and as a string argument
\* (a missing positional argument); null as the stored kind; {} as the session.
UndefinedChar == "undefined"
Undefined == <<"undefined">>
Null == <<"null">>
EmptySession == <<>>

\* Digits, for parseInt.
DigitVal == [c \in {"0", "1", "2", "3", "4", "5", "6", "7", "8", "9"} |->
               CASE c = "0" -> 0 [] c = "1" -> 1 [] c = "2" -> 2 [] c = "3" -> 3
                 [] c = "4" -> 4 [] c = "5" -> 5 [] c = "6" -> 6 [] c = "7" -> 7
                 [] c = "8" -> 8 [] c = "9" -> 9]

\* A line is a sequence of one-character strings.
\* line[k] of JavaScript (0-based); undefined past the end.
CharAt(line, k) == IF k < Len(line) THEN line[k + 1] ELSE UndefinedChar

\* String.prototype.substr(n)
Substr(line, n) == IF n >= Len(line) THEN <<>> ELSE SubSeq(line, n + 1, Len(line))

\* String.prototype.split(sep): always at least one (possibly empty) piece.
RECURSIVE SplitFrom(_, _, _, _)
SplitFrom(s, sep, k, cur) ==
    IF k > Len(s) THEN <<cur>>
    ELSE IF s[k] = sep THEN <<cur>> \o SplitFrom(s, sep, k + 1, <<>>)
    ELSE SplitFrom(s, sep, k + 1, Append(cur, s[k]))

Split(s, sep) == SplitFrom(s, sep, 1, <<>>)

\* String.prototype.trim()
IsSpace(c) == c \in {" ", "\t"}

RECURSIVE TrimLeft(_)
TrimLeft(s) == IF s # <<>> /\ IsSpace(Head(s)) THEN TrimLeft(Tail(s)) ELSE s

RECURSIVE TrimRight(_)
TrimRight(s) ==
    IF s # <<>> /\ IsSpace(s[Len(s)]) THEN TrimRight(SubSeq(s, 1, Len(s) - 1)) ELSE s

\* The blank test without trim(): the line as it is.
NoTrim(s) == s

Trim(s) == TrimRight(TrimLeft(s))

\* parseInt(s): leading whitespace skipped, an optional sign, the longest digit
\* prefix read; NaN if there is no digit.  The result is [nan, num].
RECURSIVE DigitsValue(_, _, _)
DigitsValue(s, k, acc) ==
    IF k <= Len(s) /\ s[k] \in DOMAIN DigitVal
    THEN DigitsValue(s, k + 1, acc * 10 + DigitVal[s[k]])
    ELSE acc

ParseInt(s) ==
    LET t == TrimLeft(s)
        signed == t # <<>> /\ t[1] \in {"-", "+"}
        d == IF signed THEN Tail(t) ELSE t
    IN IF d # <<>> /\ d[1] \in DOMAIN DigitVal
       THEN [nan |-> FALSE,
             num |-> IF signed /\ t[1] = "-" THEN 0 - DigitsValue(d, 1, 0)
                     ELSE DigitsValue(d, 1, 0)]
       ELSE [nan |-> TRUE, num |-> 0]

\* JSON.stringify({ answer: { type: "Choice", value: v } }): NaN is written as null.
ChoiceJson(v) ==
    [answer |-> [type |-> "Choice", isNull |-> v.nan, value |-> IF v.nan THEN 0 ELSE v.num]]

\* The k-th positional argument of a handler called with a spread array.
Arg(tokens, k) == IF k <= Len(tokens) THEN tokens[k] ELSE Undefined

\* Url.parse(url, true).query: the text after the first '?', cut at '#',
\* split on '&' into name=value pairs.
RECURSIVE IndexOf(_, _, _)
IndexOf(s, c, k) == IF k > Len(s) THEN 0 ELSE IF s[k] = c THEN k ELSE IndexOf(s, c, k + 1)

PairOf(p) ==
    LET e == IndexOf(p, "=", 1)
    IN IF e = 0 THEN <<p, <<>>>> ELSE <<SubSeq(p, 1, e - 1), SubSeq(p, e + 1, Len(p))>>

UrlQuery(url) ==
    LET h == IndexOf(url, "#", 1)
        u == IF h = 0 THEN url ELSE SubSeq(url, 1, h - 1)
        q == IndexOf(u, "?", 1)
        text == IF q = 0 THEN <<>> ELSE SubSeq(u, q + 1, Len(u))
        parts == IF text = <<>> THEN <<>> ELSE Split(text, "&")
    IN {PairOf(parts[n]) : n \in {m \in 1..Len(parts) : parts[m] # <<>>}}

\* ------------------------------------------------------------- subverbs
W_list == <<"l", "i", "s", "t">>
W_stop == <<"s", "t", "o", "p">>
W_revoke == <<"r", "e", "v", "o", "k", "e">>
W_self == <<"s", "e", "l", "f">>
W_identity == <<"i", "d", "e", "n", "t", "i", "t", "y">>
W_search == <<"s", "e", "a", "r", "c", "h">>
W_start_oauth == <<"s", "t", "a", "r", "t", "-", "o", "a", "u", "t", "h">>
W_start_oauth2 == W_start_oauth \o <<"2">>
W_complete_oauth == <<"c", "o", "m", "p", "l", "e", "t", "e", "-", "o", "a", "u", "t", "h">>
W_complete_oauth2 == W_complete_oauth \o <<"2">>

\* ------------------------------------------------------------ input lines
Esc(verb) == <<"\\", verb>>
Cmd(verb, words) == <<"\\", verb, " ">> \o words
Two(a, b) == a \o <<" ">> \o b

L_quit == Esc("q")
L_help == Esc("?")
L_h == Esc("h")
L_unknown == Esc("x")
L_empty == <<>>
L_blank == <<" ">>
L_nl == <<"h", "i">>
L_raw == Cmd("r", <<"j">>)
L_thingtalk == Cmd("t", <<"c">>)
L_choice == Cmd("c", <<"3">>)
L_app_list == Cmd("a", W_list)
L_app_stop == Cmd("a", Two(W_stop, <<"1">>))
L_app_stop_missing == Cmd("a", Two(W_stop, <<"9">>))
L_app_stop_2 == Cmd("a", Two(W_stop, <<"2">>))
L_app_stop_noid == Cmd("a", W_stop)
L_app_bad == Cmd("a", <<"x">>)
L_dev_list == Cmd("d", W_list)
L_start_A == Cmd("d", Two(W_start_oauth, <<"A">>))
L_start_B == Cmd("d", Two(W_start_oauth2, <<"B">>))
L_complete == Cmd("d", Two(W_complete_oauth, <<"u", "?", "c", "=", "1">>))
L_complete_nourl == Cmd("d", W_complete_oauth2)
L_msg_self == Cmd("m", W_self)
L_msg_identity == Cmd("m", Two(W_identity, <<"i">>))
L_msg_search == Cmd("m", Two(W_search, <<"n">>))
L_perm_list == Cmd("p", W_list)
L_perm_revoke == Cmd("p", Two(W_revoke, <<"1">>))
L_testlog == Esc("l")
L_esc == <<"\\">>
L_tab == <<"\t">>
L_nl_spaced == <<" ", "h", "i", " ">>
L_app_nosub == Esc("a")
L_dev_bad == Cmd("d", <<"x">>)
L_msg_bad == Cmd("m", <<"x">>)
L_perm_bad == Cmd("p", <<"x">>)

\* ---------------------------------------------------- collaborator data
\* What the engine's managers hold when the session starts.
InitialApps == <<<<"1">>, <<"2">>>>
InitialPermissions == <<<<"1">>>>
Devices == <<<<"d">>>>
Identities == <<<<"m">>>>
\* The values a collaborator's deferred result may carry.
Sessions == {<<"s1">>, <<"s2">>}
SearchResults == {<<>>, <<"n">>}
Account == <<"account">>
Done == <<"done">>
NoValue == <<"none">>

\* The diagnostic battery, in issuance order.
Queries == <<"query", "getCount", "getMax", "getMin", "getSum", "getAvg",
             "getArgmax", "getArgmin">>

\* ------------------------------------------------------------------ state
VARIABLES
    started,       \* interact() has run
    cmds,          \* one record per 'line' event, in arrival order
    inFlush,       \* Q is draining its task queue: no I/O event is taken
    rlClosed,      \* this._rl.close() has been called
    proc,          \* "running", "exited" (platform.exit) or "crashed" (uncaught)
    oauthKind,     \* this._oauthKind
    oauthSession,  \* this._oauthSession
    out,           \* the terminal: console.log lines and prompts, in order
    calls,         \* the collaborator calls made, in order
    diag,          \* unresolved diagnostic queries: <<command, query>>
    closing,       \* engine.close() results not yet settled
    apps,          \* the app manager's apps
    perms,         \* the permission manager's permissions
    resolved       \* the diagnostic queries that resolved, in the order they did

vars == <<started, cmds, inFlush, rlClosed, proc, oauthKind, oauthSession,
          out, calls, diag, closing, apps, perms, resolved>>

Queued == {i \in 1..Len(cmds) : cmds[i].st = "queued"}
Pending == {i \in 1..Len(cmds) : cmds[i].st = "pending"}
Runnable == {i \in 1..Len(cmds) : cmds[i].st \in {"fulfilled", "rejected"}}

Min(S) == CHOOSE x \in S : \A y \in S : x <= y

Say(i, kind, arg) == [cmd |-> i, kind |-> kind, arg |-> arg]
Call(i, fn, args) == [cmd |-> i, fn |-> fn, args |-> args]

RECURSIVE Without(_, _)
Without(list, x) ==
    IF list = <<>> THEN <<>>
    ELSE IF Head(list) = x THEN Without(Tail(list), x)
    ELSE <<Head(list)>> \o Without(Tail(list), x)

Has(list, x) == \E n \in 1..Len(list) : list[n] = x

\* The state after the constructor.
Init ==
    /\ started = FALSE
    /\ cmds = <<>>
    /\ inFlush = FALSE
    /\ rlClosed = FALSE
    /\ proc = "running"
    /\ oauthKind = Null
    /\ oauthSession = EmptySession
    /\ out = <<>>
    /\ calls = <<>>
    /\ diag = {}
    /\ closing = 0
    /\ apps = InitialApps
    /\ perms = InitialPermissions
    /\ resolved = <<>>

\* ------------------------------------------------------------- handlers
\* A handler's effect: the state of the line's promise chain after the handler
\* returned, the deferred operation it waits for, what it printed, the
\* collaborator calls it made, the fields it wrote, and (via) the method or
\* entry point the dispatch called.
Effect(st, op, printed, called) ==
    [st |-> st, op |-> op, out |-> printed, calls |-> called, kind |-> oauthKind,
     apps |-> apps, perms |-> perms, diag |-> {}, quit |-> FALSE, via |-> "none"]

Nothing == Effect("fulfilled", "none", <<>>, <<>>)

\* _quit: farewell, close the input, ask the engine to shut down.
Quit(i) ==
    [Effect("fulfilled", "none", <<Say(i, "bye", <<>>)>>, <<Call(i, "engine.close", <<>>)>>)
        EXCEPT !.quit = TRUE]

\* _help: the eighteen lines of usage text.
Help(i) == Effect("fulfilled", "none", [n \in 1..18 |-> Say(i, "help", n)], <<>>)

Listing(i, kind, list) == [n \in 1..Len(list) |-> Say(i, kind, list[n])]

_runPermissionCommand(i, cmd, param) ==
    IF cmd = W_list
    THEN Effect("fulfilled", "none", Listing(i, "permission", perms), <<>>)
    ELSE IF cmd = W_revoke
    THEN [Effect("fulfilled", "none", <<>>, <<Call(i, "removePermission", <<param>>)>>)
            EXCEPT !.perms = Without(perms, param)]
    ELSE Nothing

_runMessagingCommand(i, cmd, param) ==
    IF cmd = W_self
    THEN Effect("fulfilled", "none", Listing(i, "identity", Identities), <<>>)
    ELSE IF cmd = W_identity
    THEN Effect("pending", "identity", <<>>, <<Call(i, "getAccountForIdentity", <<param>>)>>)
    ELSE IF cmd = W_search
    THEN Effect("pending", "search", <<>>, <<Call(i, "searchAccountByName", <<param>>)>>)
    ELSE Nothing

\* _runAppCommand without the test of what getApp returned.
StopWithoutLookup(i, cmd, param) ==
    IF cmd = W_list
    THEN Effect("fulfilled", "none", Listing(i, "app", apps), <<>>)
    ELSE IF cmd = W_stop
    THEN [Effect("fulfilled", "none", <<>>, <<Call(i, "removeApp", <<param>>)>>)
            EXCEPT !.apps = Without(apps, param)]
    ELSE Nothing

_runAppCommand(i, cmd, param) ==
    IF cmd = W_list
    THEN Effect("fulfilled", "none", Listing(i, "app", apps), <<>>)
    ELSE IF cmd = W_stop
    THEN IF ~Has(apps, param)
         THEN Effect("fulfilled", "none", <<Say(i, "no-app", param)>>, <<>>)
         ELSE [Effect("fulfilled", "none", <<>>, <<Call(i, "removeApp", <<param>>)>>)
                 EXCEPT !.apps = Without(apps, param)]
    ELSE Nothing

\* The synthetic request of complete-oauth.
OAuthRequest(param) ==
    [httpVersion |-> "1.0", headers |-> <<>>, rawHeaders |-> <<>>, method |-> "GET",
     url |-> param, query |-> UrlQuery(param), session |-> oauthSession]

\* _runDeviceCommand without the assignment of the kind in start-oauth.
KindNotRecorded(i, cmd, param) ==
    IF cmd = W_list
    THEN Effect("fulfilled", "none", Listing(i, "device", Devices), <<>>)
    ELSE IF cmd = W_start_oauth \/ cmd = W_start_oauth2
    THEN Effect("pending", "start-oauth", <<>>, <<Call(i, "runOAuth2", <<param, Null>>)>>)
    ELSE IF cmd = W_complete_oauth \/ cmd = W_complete_oauth2
    THEN IF param = Undefined
         THEN Effect("rejected", "none", <<>>, <<>>)
         ELSE Effect("pending", "complete-oauth", <<>>,
                     <<Call(i, "runOAuth2", <<oauthKind, OAuthRequest(param)>>)>>)
    ELSE Nothing

\* _runDeviceCommand with the assignment of the kind moved before the test of
\* the subverb, so that every device command writes it.
KindWrittenByAll(i, cmd, param) ==
    IF cmd = W_list
    THEN [Effect("fulfilled", "none", Listing(i, "device", Devices), <<>>)
            EXCEPT !.kind = param]
    ELSE IF cmd = W_start_oauth \/ cmd = W_start_oauth2
    THEN [Effect("pending", "start-oauth", <<>>,
                 <<Call(i, "runOAuth2", <<param, Null>>)>>)
            EXCEPT !.kind = param]
    ELSE IF cmd = W_complete_oauth \/ cmd = W_complete_oauth2
    THEN IF param = Undefined
         THEN [Effect("rejected", "none", <<>>, <<>>) EXCEPT !.kind = param]
         ELSE [Effect("pending", "complete-oauth", <<>>,
                      <<Call(i, "runOAuth2", <<param, OAuthRequest(param)>>)>>)
                 EXCEPT !.kind = param]
    ELSE [Nothing EXCEPT !.kind = param]

_runDeviceCommand(i, cmd, param) ==
    IF cmd = W_list
    THEN Effect("fulfilled", "none", Listing(i, "device", Devices), <<>>)
    ELSE IF cmd = W_start_oauth \/ cmd = W_start_oauth2
    THEN [Effect("pending", "start-oauth", <<>>,
                 <<Call(i, "runOAuth2", <<param, Null>>)>>)
            EXCEPT !.kind = param]
    ELSE IF cmd = W_complete_oauth \/ cmd = W_complete_oauth2
    THEN IF param = Undefined
         THEN Effect("rejected", "none", <<>>, <<>>)   \* Url.parse(undefined) throws
         ELSE Effect("pending", "complete-oauth", <<>>,
                     <<Call(i, "runOAuth2", <<oauthKind, OAuthRequest(param)>>)>>)
    ELSE Nothing

\* _testLog: eight queries are started and none of their results is returned.
_testLog(i) ==
    [Effect("fulfilled", "none", <<>>, [n \in 1..Len(Queries) |-> Call(i, Queries[n], <<>>)])
        EXCEPT !.diag = {<<i, Queries[n]>> : n \in 1..Len(Queries)}]

Core(i, fn, arg) == Effect("pending", "core", <<>>, <<Call(i, fn, <<arg>>)>>)

\* The effect e of a call of method m.
Via(m, e) == [e EXCEPT !.via = m]

\* _onLine without the unknown-command branch: an escape-prefixed line with
\* an unknown verb falls through to the natural-language entry point.
UnknownAsText(i, line) ==
    LET tokens == Split(Substr(line, 3), " ")
        cmd == Arg(tokens, 1)
        param == Arg(tokens, 2)
    IN IF CharAt(line, 0) = "\\"
       THEN IF CharAt(line, 1) = "q" THEN Via("_quit", Quit(i))
            ELSE IF CharAt(line, 1) = "?" \/ line = <<"h">> THEN Via("_help", Help(i))
            ELSE IF CharAt(line, 1) = "r"
                 THEN Via("handleParsedCommand",
                          Core(i, "handleParsedCommand", Substr(line, 3)))
            ELSE IF CharAt(line, 1) = "t"
                 THEN Via("handleThingTalk", Core(i, "handleThingTalk", Substr(line, 3)))
            ELSE IF CharAt(line, 1) = "c"
                 THEN Via("handleParsedCommand",
                          Core(i, "handleParsedCommand", ChoiceJson(ParseInt(Substr(line, 3)))))
            ELSE IF CharAt(line, 1) = "a"
                 THEN Via("_runAppCommand", _runAppCommand(i, cmd, param))
            ELSE IF CharAt(line, 1) = "d"
                 THEN Via("_runDeviceCommand", _runDeviceCommand(i, cmd, param))
            ELSE IF CharAt(line, 1) = "m"
                 THEN Via("_runMessagingCommand", _runMessagingCommand(i, cmd, param))
            ELSE IF CharAt(line, 1) = "p"
                 THEN Via("_runPermissionCommand", _runPermissionCommand(i, cmd, param))
            ELSE IF CharAt(line, 1) = "l" THEN Via("_testLog", _testLog(i))
            ELSE Via("handleCommand", Core(i, "handleCommand", line))
       ELSE IF Trim(line) # <<>> THEN Via("handleCommand", Core(i, "handleCommand", line))
       ELSE Nothing

\* The function _onLine passes to Q.try.
Dispatch(i, line) ==
    LET tokens == Split(Substr(line, 3), " ")
        cmd == Arg(tokens, 1)
        param == Arg(tokens, 2)
    IN IF CharAt(line, 0) = "\\"
       THEN IF CharAt(line, 1) = "q" THEN Via("_quit", Quit(i))
            ELSE IF CharAt(line, 1) = "?" \/ line = <<"h">> THEN Via("_help", Help(i))
            ELSE IF CharAt(line, 1) = "r"
                 THEN Via("handleParsedCommand",
                          Core(i, "handleParsedCommand", Substr(line, 3)))
            ELSE IF CharAt(line, 1) = "t"
                 THEN Via("handleThingTalk", Core(i, "handleThingTalk", Substr(line, 3)))
            ELSE IF CharAt(line, 1) = "c"
                 THEN Via("handleParsedCommand",
                          Core(i, "handleParsedCommand", ChoiceJson(ParseInt(Substr(line, 3)))))
            ELSE IF CharAt(line, 1) = "a"
                 THEN Via("_runAppCommand", _runAppCommand(i, cmd, param))
            ELSE IF CharAt(line, 1) = "d"
                 THEN Via("_runDeviceCommand", _runDeviceCommand(i, cmd, param))
            ELSE IF CharAt(line, 1) = "m"
                 THEN Via("_runMessagingCommand", _runMessagingCommand(i, cmd, param))
            ELSE IF CharAt(line, 1) = "p"
                 THEN Via("_runPermissionCommand", _runPermissionCommand(i, cmd, param))
            ELSE IF CharAt(line, 1) = "l" THEN Via("_testLog", _testLog(i))
            ELSE Effect("fulfilled", "none", <<Say(i, "unknown", CharAt(line, 1))>>, <<>>)
       ELSE IF Trim(line) # <<>> THEN Via("handleCommand", Core(i, "handleCommand", line))
       ELSE Nothing

\* ---------------------------------------------------------------- actions
NewCmd(l) == [line |-> l, st |-> "queued", op |-> "none", ret |-> NoValue, via |-> "none"]

\* Whether Q still has a task to run (a queued Q.try function, a .then or .done
\* callback of a settled chain).
TasksLeft(c) == \E k \in 1..Len(c) : c[k].st \in {"queued", "fulfilled", "rejected"}

\* The renderer's primitives (send, sendPicture, sendRDL, sendChoice, sendLink,
\* sendButton, sendAskSpecial).
Primitives == {"send", "picture", "rdl", "choice", "link", "button", "ask-special"}

Sends(i) == Cardinality({n \in 1..Len(out) : out[n].cmd = i /\ out[n].kind \in Primitives})

\* interact(): start the conversation, register the listeners, show the prompt.
Interact ==
    /\ ~started
    /\ started' = TRUE
    /\ calls' = Append(calls, Call(0, "conversation.start", <<>>))
    /\ out' = Append(out, Say(0, "prompt", <<>>))
    /\ UNCHANGED <<cmds, inFlush, rlClosed, proc, oauthKind, oauthSession, diag,
                   closing, apps, perms, resolved>>

\* readline emits 'line': _onLine calls Q.try, which queues the dispatch.
OnLine(l, max) ==
    /\ started /\ proc = "running" /\ ~rlClosed /\ ~inFlush
    /\ Len(cmds) < max
    /\ cmds' = Append(cmds, NewCmd(l))
    /\ UNCHANGED <<started, inFlush, rlClosed, proc, oauthKind, oauthSession, out,
                   calls, diag, closing, apps, perms, resolved>>

\* What a handler's effect does to the state.
Apply(i, e) ==
    /\ out' = out \o e.out
    /\ calls' = calls \o e.calls
    /\ oauthKind' = e.kind
    /\ apps' = e.apps
    /\ perms' = e.perms
    /\ diag' = diag \cup e.diag
    /\ rlClosed' = (rlClosed \/ e.quit)
    /\ closing' = closing + (IF e.quit THEN 1 ELSE 0)

\* readline emits 'SIGINT': _quit runs at once, outside any promise chain.
OnSigint ==
    /\ started /\ proc = "running" /\ ~rlClosed /\ ~inFlush
    /\ Apply(0, Quit(0))
    /\ UNCHANGED <<started, cmds, inFlush, proc, oauthSession, resolved>>

\* Q runs the function given to Q.try, oldest line first.
RunHandler ==
    /\ proc = "running" /\ Queued # {}
    /\ LET i == Min(Queued)
           e == Dispatch(i, cmds[i].line)
       IN /\ Apply(i, e)
          /\ cmds' = [cmds EXCEPT ![i].st = e.st, ![i].op = e.op, ![i].via = e.via]
    /\ inFlush' = TasksLeft(cmds')
    /\ UNCHANGED <<started, proc, oauthSession, resolved>>

\* The assistant core renders a reply of the command it is handling.
DelegateSend(i, p) ==
    /\ proc = "running" /\ Queued = {}
    /\ i \in Pending /\ cmds[i].op = "core"
    /\ Sends(i) < MaxSend
    /\ out' = Append(out, Say(i, p, <<>>))
    /\ UNCHANGED <<started, cmds, inFlush, rlClosed, proc, oauthKind, oauthSession,
                   calls, diag, closing, apps, perms, resolved>>

\* The deferred result of command i resolves; the handler's own .then runs.
Resolve(i, v) ==
    /\ proc = "running" /\ Queued = {}
    /\ i \in Pending
    /\ CASE cmds[i].op = "identity" ->
              /\ v = Account
              /\ out' = Append(out, Say(i, "account", <<>>))
              /\ UNCHANGED oauthSession
         [] cmds[i].op = "search" ->
              /\ v \in SearchResults
              /\ out' = out \o Listing(i, "contact", v)
              /\ UNCHANGED oauthSession
         [] cmds[i].op = "start-oauth" ->
              /\ v \in Sessions
              /\ oauthSession' = v
              /\ out' = Append(out, Say(i, "redirect", <<>>))
         [] OTHER ->
              /\ v = Done
              /\ UNCHANGED <<out, oauthSession>>
    /\ cmds' = [cmds EXCEPT ![i].st = "fulfilled", ![i].ret = v]
    /\ inFlush' = TRUE
    /\ UNCHANGED <<started, rlClosed, proc, oauthKind, calls, diag, closing, apps,
                   perms, resolved>>

\* The deferred result of command i is rejected.
Reject(i) ==
    /\ proc = "running" /\ Queued = {}
    /\ i \in Pending
    /\ cmds' = [cmds EXCEPT ![i].st = "rejected"]
    /\ inFlush' = TRUE
    /\ UNCHANGED <<started, rlClosed, proc, oauthKind, oauthSession, out, calls,
                   diag, closing, apps, perms, resolved>>

\* The .then of _onLine: this._rl.prompt().  It runs for every line whose chain
\* is fulfilled, the quit line included (_quit returns undefined), and writes
\* the prompt whether or not the interface has been closed.
Continue(i) ==
    /\ proc = "running" /\ Queued = {}
    /\ i \in 1..Len(cmds) /\ cmds[i].st = "fulfilled"
    /\ out' = Append(out, Say(i, "prompt", <<>>))
    /\ cmds' = [cmds EXCEPT ![i].st = "prompted"]
    /\ inFlush' = TasksLeft(cmds')
    /\ UNCHANGED <<started, rlClosed, proc, oauthKind, oauthSession, calls, diag,
                   closing, apps, perms, resolved>>

\* The .done() of _onLine on a rejected chain: the error is thrown again in a
\* later turn, where nothing catches it.
Crash(i) ==
    /\ proc = "running" /\ Queued = {}
    /\ i \in 1..Len(cmds) /\ cmds[i].st = "rejected"
    /\ proc' = "crashed"
    /\ UNCHANGED <<started, cmds, inFlush, rlClosed, oauthKind, oauthSession, out,
                   calls, diag, closing, apps, perms, resolved>>

\* _testLog with a rejection handler that prints too: a line per settled query.
LineForFailureToo(i, q, ok, max) ==
    /\ proc = "running" /\ Queued = {}
    /\ <<i, q>> \in diag
    /\ Cardinality({n \in 1..Len(calls) : Has(Queries, calls[n].fn)}) - Cardinality(diag) < max
    /\ diag' = diag \ {<<i, q>>}
    /\ resolved' = IF ok THEN Append(resolved, <<i, q>>) ELSE resolved
    /\ out' = Append(out, Say(i, "result", q))
    /\ UNCHANGED <<started, cmds, inFlush, rlClosed, proc, oauthKind, oauthSession,
                   calls, closing, apps, perms>>

\* The diagnostic queries that have settled: those started and no longer waiting.
DiagSettled ==
    Cardinality({n \in 1..Len(calls) : Has(Queries, calls[n].fn)}) - Cardinality(diag)

\* One query of a diagnostic battery settles: a result is printed, a failure is
\* dropped (the chains of _testLog end in neither a handler nor .done()).
DiagSettle(i, q, ok, max) ==
    /\ proc = "running" /\ Queued = {}
    /\ <<i, q>> \in diag
    /\ DiagSettled < max
    /\ diag' = diag \ {<<i, q>>}
    /\ resolved' = IF ok THEN Append(resolved, <<i, q>>) ELSE resolved
    /\ out' = IF ok THEN Append(out, Say(i, "result", q)) ELSE out
    /\ UNCHANGED <<started, cmds, inFlush, rlClosed, proc, oauthKind, oauthSession,
                   calls, closing, apps, perms>>

\* The result of an engine.close() settles: platform.exit() on success, an
\* uncaught error (through .done()) on failure.
CloseSettle(ok) ==
    /\ proc = "running" /\ Queued = {}
    /\ closing > 0
    /\ closing' = closing - 1
    /\ proc' = IF ok THEN "exited" ELSE "crashed"
    /\ calls' = IF ok THEN Append(calls, Call(0, "platform.exit", <<>>)) ELSE calls
    /\ UNCHANGED <<started, cmds, inFlush, rlClosed, oauthKind, oauthSession, out,
                   diag, apps, perms, resolved>>

ResolveValues == {Account, Done} \cup SearchResults \cup Sessions

\* ---------------------------------------------------------- specifications
\* A session of ordinary commands: a natural-language line, a synchronous
\* listing, a deferred messaging lookup, quit.
SessionMenu == {L_quit, L_nl, L_app_list, L_msg_identity}

Next ==
    \/ Interact
    \/ \E l \in SessionMenu : OnLine(l, MaxLines)
    \/ OnSigint
    \/ RunHandler
    \/ \E i \in 1..Len(cmds), p \in Primitives : DelegateSend(i, p)
    \/ \E i \in 1..Len(cmds), v \in ResolveValues : Resolve(i, v)
    \/ \E i \in 1..Len(cmds) : Reject(i)
    \/ \E i \in 1..Len(cmds) : Continue(i)
    \/ \E i \in 1..Len(cmds) : Crash(i)
    \/ \E ok \in BOOLEAN : CloseSettle(ok)

Spec == Init /\ [][Next]_vars

\* A session of OAuth pairing commands that is not interrupted.
OAuthMenu == {L_start_A, L_start_B, L_complete, L_complete_nourl}

NextOAuth ==
    \/ Interact
    \/ \E l \in OAuthMenu : OnLine(l, MaxOAuthLines)
    \/ RunHandler
    \/ \E i \in 1..Len(cmds), v \in ResolveValues : Resolve(i, v)
    \/ \E i \in 1..Len(cmds) : Reject(i)
    \/ \E i \in 1..Len(cmds) : Continue(i)
    \/ \E i \in 1..Len(cmds) : Crash(i)

SpecOAuth == Init /\ [][NextOAuth]_vars

\* A session that runs the diagnostic battery and is not interrupted.
DiagMenu == {L_testlog}

NextDiag ==
    \/ Interact
    \/ \E l \in DiagMenu : OnLine(l, MaxDiagLines)
    \/ RunHandler
    \/ \E i \in 1..Len(cmds) : Continue(i)
    \/ \E i \in 1..Len(cmds), n \in 1..Len(Queries), ok \in BOOLEAN :
          DiagSettle(i, Queries[n], ok, MaxDiagSettled)

SpecDiag == Init /\ [][NextDiag]_vars

\* A pairing session: a start-oauth, then a command of another kind, then
\* complete-oauth.  What the assistant core renders and what the diagnostic
\* queries print later is left out.
OtherCommands ==
    {L_nl, L_raw, L_thingtalk, L_choice, L_app_stop, L_dev_list, L_msg_search,
     L_perm_revoke, L_testlog, L_help, L_unknown, L_blank}

PairingMenu(k) ==
    IF k = 0 THEN {L_start_A}
    ELSE IF k = 1 THEN OtherCommands
    ELSE {L_complete}

NextPairing ==
    \/ Interact
    \/ \E l \in PairingMenu(Len(cmds)) : OnLine(l, MaxPairLines)
    \/ RunHandler
    \/ \E i \in 1..Len(cmds), v \in ResolveValues : Resolve(i, v)
    \/ \E i \in 1..Len(cmds) : Reject(i)
    \/ \E i \in 1..Len(cmds) : Continue(i)
    \/ \E i \in 1..Len(cmds) : Crash(i)

SpecPairing == Init /\ [][NextPairing]_vars

\* A session of any lines: every verb and subverb of the usage text, lines
\* with a wrong or missing subverb, unknown verbs, text and blank lines.  What
\* the assistant core renders and what the diagnostic queries print later is
\* left out.
AllLines ==
    {L_quit, L_help, L_h, L_unknown, L_esc, L_empty, L_blank, L_tab, L_nl, L_nl_spaced,
     L_raw, L_thingtalk, L_choice, L_app_list, L_app_stop, L_app_stop_missing, L_app_bad,
     L_app_nosub, L_dev_list, L_start_A, L_start_B, L_complete, L_complete_nourl,
     L_dev_bad, L_msg_self, L_msg_identity, L_msg_search, L_msg_bad, L_perm_list,
     L_perm_revoke, L_perm_bad, L_testlog}

NextDispatch ==
    \/ Interact
    \/ \E l \in AllLines : OnLine(l, MaxDispatchLines)
    \/ OnSigint
    \/ RunHandler
    \/ \E i \in 1..Len(cmds), v \in ResolveValues : Resolve(i, v)
    \/ \E i \in 1..Len(cmds) : Reject(i)
    \/ \E i \in 1..Len(cmds) : Continue(i)
    \/ \E i \in 1..Len(cmds) : Crash(i)
    \/ \E ok \in BOOLEAN : CloseSettle(ok)

SpecDispatch == Init /\ [][NextDispatch]_vars

\* A session with unknown commands among text and OAuth commands.
UnknownMenu == {L_unknown, L_esc, L_h, L_nl, L_start_A, L_complete}

NextUnknown ==
    \/ Interact
    \/ \E l \in UnknownMenu : OnLine(l, MaxUnknownLines)
    \/ RunHandler
    \/ \E i \in 1..Len(cmds) : DelegateSend(i, "send")
    \/ \E i \in 1..Len(cmds), v \in ResolveValues : Resolve(i, v)
    \/ \E i \in 1..Len(cmds) : Reject(i)
    \/ \E i \in 1..Len(cmds) : Continue(i)
    \/ \E i \in 1..Len(cmds) : Crash(i)

SpecUnknown == Init /\ [][NextUnknown]_vars

\* A session of app commands.
AppMenu == {L_app_list, L_app_stop, L_app_stop_2, L_app_stop_missing, L_app_stop_noid}

NextApps ==
    \/ Interact
    \/ \E l \in AppMenu : OnLine(l, MaxAppLines)
    \/ RunHandler
    \/ \E i \in 1..Len(cmds) : Continue(i)

SpecApps == Init /\ [][NextApps]_vars

\* A session of start-oauth and complete-oauth commands with their arguments:
\* two lines of either, then complete-oauth.
HandoffMenu(k) == IF k < 2 THEN {L_start_A, L_start_B, L_complete} ELSE {L_complete}

NextHandoff ==
    \/ Interact
    \/ \E l \in HandoffMenu(Len(cmds)) : OnLine(l, MaxHandoffLines)
    \/ RunHandler
    \/ \E i \in 1..Len(cmds), v \in ResolveValues : Resolve(i, v)
    \/ \E i \in 1..Len(cmds) : Reject(i)
    \/ \E i \in 1..Len(cmds) : Continue(i)
    \/ \E i \in 1..Len(cmds) : Crash(i)

SpecHandoff == Init /\ [][NextHandoff]_vars

\* A session in which one diagnostic command is typed.
BatterySession == <<L_testlog>>

NextBattery ==
    \/ Interact
    \/ /\ Len(cmds) < Len(BatterySession)
       /\ OnLine(BatterySession[Len(cmds) + 1], Len(BatterySession))
    \/ RunHandler
    \/ \E i \in 1..Len(cmds) : Continue(i)
    \/ \E i \in 1..Len(cmds), n \in 1..Len(Queries), ok \in BOOLEAN :
          DiagSettle(i, Queries[n], ok, MaxBatterySettled)

SpecBattery == Init /\ [][NextBattery]_vars

\* ------------------------------------------------------------------ claims
IsQuitLine(line) == CharAt(line, 0) = "\\" /\ CharAt(line, 1) = "q"

\* The handler of line i runs in this step.
Dispatched(i) == i \in Queued /\ cmds'[i].st # "queued"

CallsOf(fn) == {n \in 1..Len(calls) : calls[n].fn = fn}
Prompts == {n \in 1..Len(out) : out[n].kind = "prompt"}
FarewellPrinted == \E n \in 1..Len(out) : out[n].kind = "bye"
Settled(i) == cmds[i].st \in {"fulfilled", "prompted"}

\* C1: while a dispatched command's deferred result is unsettled, no later line
\* is dispatched (no handler is started).
C1_Serialized == [][\A i \in 1..Len(cmds) : Dispatched(i) => Pending = {}]_vars

\* C2: all terminal output of command N is printed before any output of
\* command N+1 (prompts aside).
C2_NoInterleaving ==
    \A a, b \in 1..Len(out) :
        (a < b /\ out[a].kind # "prompt" /\ out[b].kind # "prompt"
           /\ out[a].cmd > 0 /\ out[b].cmd > 0)
        => out[a].cmd <= out[b].cmd

\* C3: the prompt that follows a command is displayed only after all of that
\* command's output: nothing of command i is printed after the prompt of i.
C3_PromptAfterOutput ==
    \A a, b \in 1..Len(out) :
        (a < b /\ out[a].kind = "prompt" /\ out[a].cmd > 0) => out[b].cmd # out[a].cmd

\* C4: a handler failure is caught at the session loop: the process keeps
\* running (the read loop ends only through quit or an interrupt).
C4_FailureCaught ==
    (~rlClosed /\ \E i \in 1..Len(cmds) : cmds[i].st = "rejected") => proc = "running"

\* C5: the prompts shown are the initial one plus one per line other than quit
\* whose operation has settled successfully.
C5_PromptCount ==
    started =>
        /\ Cardinality(Prompts)
             <= 1 + Cardinality({i \in 1..Len(cmds) : ~IsQuitLine(cmds[i].line) /\ Settled(i)})
        /\ Cardinality(Prompts)
             >= 1 + Cardinality({i \in 1..Len(cmds) :
                                   ~IsQuitLine(cmds[i].line) /\ cmds[i].st = "prompted"})

\* C6: engine.close and the process exit are each called at most once, and
\* exactly once when the process has exited.
C6_ShutdownOnce ==
    /\ Cardinality(CallsOf("engine.close")) <= 1
    /\ Cardinality(CallsOf("platform.exit")) <= 1
    /\ proc = "exited" =>
          Cardinality(CallsOf("engine.close")) = 1 /\ Cardinality(CallsOf("platform.exit")) = 1

\* C7: engine.close is not called while an earlier command's deferred result
\* is still pending.
C7_QuitWaits ==
    [][Cardinality({n \in 1..Len(calls') : calls'[n].fn = "engine.close"})
         > Cardinality(CallsOf("engine.close")) => Pending = {}]_vars

\* C8: the process exits only after farewell, input close and a requested
\* engine.close; once the farewell is printed no line is dispatched any more.
C8_ShutdownOrder ==
    [][/\ proc' = "exited" =>
             FarewellPrinted /\ rlClosed /\ CallsOf("engine.close") # {} /\ closing > 0
       /\ FarewellPrinted => \A i \in 1..Len(cmds) : ~Dispatched(i)]_vars

\* The kind given to the start-oauth command of line i.
StartKind(i) == Arg(Split(Substr(cmds[i].line, 3), " "), 2)
StartedOAuth == {i \in 1..Len(cmds) : cmds[i].op = "start-oauth"}
Succeeded == {i \in StartedOAuth : Settled(i)}

\* C9: when complete-oauth calls the factory after a successful start-oauth,
\* the kind and the session it passes are those of one successful start-oauth.
C9_SamePairing ==
    [][\A i \in 1..Len(cmds) :
          (Dispatched(i) /\ cmds'[i].op = "complete-oauth" /\ Succeeded # {})
          => LET c == calls'[Len(calls')]
             IN \E j \in Succeeded :
                   StartKind(j) = c.args[1] /\ cmds[j].ret = c.args[2].session]_vars

\* C10: the pairing state is written only by a start-oauth that succeeds: when
\* every start-oauth so far has failed, kind is null and the session is empty.
C10_FailureKeepsState ==
    (StartedOAuth # {} /\ \A i \in StartedOAuth : cmds[i].st = "rejected")
    => oauthKind = Null /\ oauthSession = EmptySession

\* The words after the verb of line i, and the lines that are OAuth commands.
Tokens(i) == Split(Substr(cmds[i].line, 3), " ")
IsDeviceLine(i) == CharAt(cmds[i].line, 0) = "\\" /\ CharAt(cmds[i].line, 1) = "d"
StartLines == {i \in 1..Len(cmds) : IsDeviceLine(i) /\ Tokens(i)[1] \in {W_start_oauth, W_start_oauth2}}
CompleteLines ==
    {i \in 1..Len(cmds) : IsDeviceLine(i) /\ Tokens(i)[1] \in {W_complete_oauth, W_complete_oauth2}}

\* C11: when a complete-oauth that carried the session of a successful
\* start-oauth settles (resolved or rejected), and no start-oauth was issued
\* since, the coordinator is back in Idle: the stored kind is null and the
\* stored session is empty.
C11_BackToIdle ==
    [][\A i \in 1..Len(cmds) :
          (/\ cmds[i].op = "complete-oauth"
           /\ cmds[i].st = "pending" /\ cmds'[i].st # "pending"
           /\ \E n \in 1..Len(calls) :
                 calls[n].cmd = i /\ calls[n].args[2].session # EmptySession
           /\ \A j \in StartLines : j < i /\ Settled(j))
          => oauthKind' = Null /\ oauthSession' = EmptySession]_vars

\* C13: a complete-oauth dispatched in a session in which no start-oauth was
\* ever issued calls the device factory once, with no kind and the empty
\* session, and the session goes on.
C13_LenientComplete ==
    \A i \in CompleteLines :
        (cmds[i].st # "queued" /\ StartLines = {})
        => /\ Cardinality({n \in 1..Len(calls) : calls[n].cmd = i}) = 1
           /\ \A n \in 1..Len(calls) :
                 calls[n].cmd = i =>
                    /\ calls[n].fn = "runOAuth2"
                    /\ calls[n].args[1] = Null
                    /\ calls[n].args[2].session = EmptySession
           /\ proc = "running"

\* C12: in a session with one start-oauth, which succeeded, the stored kind and
\* session change in no step other than the dispatch or the settling of a
\* start-oauth, and a complete-oauth dispatched after other commands passes
\* the kind and the session of that start-oauth.
C12_OthersKeepPairing ==
    [][/\ (oauthKind' # oauthKind \/ oauthSession' # oauthSession)
          => \E j \in StartLines :
                Dispatched(j) \/ (cmds[j].st = "pending" /\ cmds'[j].st # "pending")
       /\ \A i \in CompleteLines, j \in StartLines :
             (Dispatched(i) /\ StartLines = {j} /\ Settled(j))
             => LET c == calls'[Len(calls')]
                IN /\ Len(calls') = Len(calls) + 1
                   /\ c.cmd = i /\ c.fn = "runOAuth2"
                   /\ c.args[1] = StartKind(j)
                   /\ c.args[2].session = cmds[j].ret]_vars

\* A start-oauth A succeeded, a command of another kind was dispatched, and the
\* complete-oauth that followed passed A and the session of that start-oauth.
C12_Witness ==
    /\ Len(cmds) = 3 /\ Settled(1) /\ cmds[1].ret \in Sessions
    /\ cmds[2].line \in OtherCommands /\ cmds[2].st # "queued"
    /\ 3 \in CompleteLines
    /\ \E n \in 1..Len(calls) :
          /\ calls[n].cmd = 3
          /\ calls[n].args[1] = <<"A">>
          /\ calls[n].args[2].session = cmds[1].ret

\* The verbs of the table (quit, help, raw, thingtalk, choice, app, device,
\* messaging, permission, diagnostic) by the character that selects each, and
\* the method that handles each verb.
HandlerOf ==
    [c \in {"q", "?", "r", "t", "c", "a", "d", "m", "p", "l"} |->
        CASE c = "q" -> "_quit"
          [] c = "?" -> "_help"
          [] c \in {"r", "c"} -> "handleParsedCommand"
          [] c = "t" -> "handleThingTalk"
          [] c = "a" -> "_runAppCommand"
          [] c = "d" -> "_runDeviceCommand"
          [] c = "m" -> "_runMessagingCommand"
          [] c = "p" -> "_runPermissionCommand"
          [] c = "l" -> "_testLog"]

IsEscaped(i) == CharAt(cmds[i].line, 0) = "\\"
CallsFor(i) == {n \in 1..Len(calls) : calls[n].cmd = i}
PrintedFor(i) == {n \in 1..Len(out) : out[n].cmd = i /\ out[n].kind # "prompt"}
DispatchedLines == {i \in 1..Len(cmds) : cmds[i].st # "queued"}
IsBlank(line) == \A k \in 1..Len(line) : line[k] \in {" ", "\t"}

UnknownLines ==
    {i \in 1..Len(cmds) : IsEscaped(i) /\ CharAt(cmds[i].line, 1) \notin DOMAIN HandlerOf}

\* C15: the dispatch of an escaped line whose verb is not of the table prints
\* the unknown-command report and nothing else, makes no collaborator call,
\* leaves the pairing state and the engine's data unchanged, leaves the
\* process running and the input open, and fulfils the line's chain, so that
\* the prompt follows.
C15_UnknownNonFatal ==
    [][\A i \in UnknownLines :
          Dispatched(i)
          => /\ out' = Append(out, Say(i, "unknown", CharAt(cmds[i].line, 1)))
             /\ cmds'[i].st = "fulfilled"
             /\ proc' = "running" /\ rlClosed' = rlClosed
             /\ UNCHANGED <<oauthKind, oauthSession, calls, apps, perms, diag, closing>>]_vars

\* An unknown command was reported and its prompt shown while a start-oauth
\* had set the kind, or a later line of text was dispatched to the core.
C15_Witness ==
    /\ Len(cmds) = 2
    /\ \/ /\ 1 \in UnknownLines /\ cmds[1].st = "prompted" /\ PrintedFor(1) # {}
          /\ cmds[2].line = L_nl /\ CallsFor(2) # {}
       \/ /\ cmds[1].line = L_start_A /\ oauthKind = <<"A">>
          /\ 2 \in UnknownLines /\ cmds[2].st = "prompted" /\ PrintedFor(2) # {}

\* The subverbs each handler recognises.
Subverbs ==
    [c \in {"a", "d", "m", "p"} |->
        CASE c = "a" -> {W_list, W_stop}
          [] c = "d" -> {W_list, W_start_oauth, W_start_oauth2, W_complete_oauth,
                         W_complete_oauth2}
          [] c = "m" -> {W_self, W_identity, W_search}
          [] c = "p" -> {W_list, W_revoke}]

BadSubverbLines ==
    {i \in 1..Len(cmds) :
        /\ IsEscaped(i) /\ CharAt(cmds[i].line, 1) \in DOMAIN Subverbs
        /\ Tokens(i)[1] \notin Subverbs[CharAt(cmds[i].line, 1)]}

\* C16: a line with the verb app, device, messaging or permission and a wrong
\* or missing subverb has a report on the terminal by the time its prompt is
\* shown.
C16_NoSilentDrop ==
    \A i \in BadSubverbLines : cmds[i].st = "prompted" => PrintedFor(i) # {}

HelpLines == {i \in 1..Len(cmds) : IsEscaped(i) /\ CharAt(cmds[i].line, 1) \in {"?", "h"}}

\* C17: a dispatched line of either help spelling has printed the eighteen
\* lines of usage text and made no collaborator call.
C17_BothHelpSpellings ==
    \A i \in HelpLines \cap DispatchedLines :
        /\ CallsFor(i) = {}
        /\ Cardinality({n \in PrintedFor(i) : out[n].kind = "help"}) = 18

StopLines ==
    {i \in 1..Len(cmds) :
        IsEscaped(i) /\ CharAt(cmds[i].line, 1) = "a" /\ Tokens(i)[1] = W_stop}
Elements(list) == {list[n] : n \in 1..Len(list)}

\* C18: the dispatch of app stop with id x prints the not-found message, calls
\* nothing and leaves the apps as they are when no app has id x; when one has,
\* it calls removeApp once, with that app, prints nothing, and the apps that
\* remain are all the others.
C18_StopOneApp ==
    [][\A i \in StopLines :
          Dispatched(i)
          => LET x == Arg(Tokens(i), 2)
             IN IF x \notin Elements(apps)
                THEN /\ out' = Append(out, Say(i, "no-app", x))
                     /\ calls' = calls
                     /\ apps' = apps
                ELSE /\ out' = out
                     /\ calls' = Append(calls, Call(i, "removeApp", <<x>>))
                     /\ Elements(apps') = Elements(apps) \ {x}]_vars

\* App 1 was stopped by the first line, and stopping it again printed the
\* not-found message and left app 2 alone.
C18_Witness ==
    /\ Len(cmds) = 2 /\ cmds[1].line = L_app_stop /\ cmds[2].line = L_app_stop
    /\ cmds[2].st = "prompted"
    /\ Cardinality(CallsOf("removeApp")) = 1
    /\ \E n \in PrintedFor(2) : out[n].kind = "no-app"
    /\ apps = <<<<"2">>>>

TestLogLines == {i \in 1..Len(cmds) : IsEscaped(i) /\ CharAt(cmds[i].line, 1) = "l"}
IsResultOf(i, e) == e.cmd = i /\ e.kind = "result"
ResultsOf(i) == SelectSeq(out, LAMBDA e : IsResultOf(i, e))
ResolvedOf(i) == SelectSeq(resolved, LAMBDA r : r[1] = i)

\* C19: a dispatched diagnostic command has called each of the eight queries
\* once and nothing else, and the lines printed for it are one result line
\* per query that resolved, in the order in which the queries resolved.
C19_Battery ==
    \A i \in TestLogLines \cap DispatchedLines :
        /\ \A k \in 1..Len(Queries) :
              Cardinality({n \in CallsFor(i) : calls[n].fn = Queries[k]}) = 1
        /\ Cardinality(CallsFor(i)) = Len(Queries)
        /\ apps = InitialApps /\ perms = InitialPermissions
        /\ \A n \in PrintedFor(i) : out[n].kind = "result"
        /\ Len(ResultsOf(i)) = Len(ResolvedOf(i))
        /\ \A k \in 1..Len(ResolvedOf(i)) : ResultsOf(i)[k].arg = ResolvedOf(i)[k][2]

\* The last query issued resolved first, the first one failed, and three
\* more resolved against the issuance order: four result lines are printed.
C19_Witness ==
    /\ 1 \in TestLogLines
    /\ Len(resolved) = 4
    /\ resolved[1] = <<1, "getArgmin">> /\ resolved[2] = <<1, "getSum">>
    /\ resolved[3] = <<1, "getCount">> /\ resolved[4] = <<1, "getMax">>
    /\ <<1, "query">> \notin diag
    /\ Len(ResultsOf(1)) = 4 /\ ResultsOf(1)[1].arg = "getArgmin"

Max(S) == CHOOSE x \in S : \A y \in S : y <= x

\* In the lines c: the kind of the start-oauth dispatched last.  In the output
\* o: the session returned by the start-oauth factory call that resolved last
\* (its redirect line is printed when it resolves).
LatestKind(c) ==
    LET S == {i \in 1..Len(c) :
                /\ c[i].st # "queued"
                /\ CharAt(c[i].line, 0) = "\\" /\ CharAt(c[i].line, 1) = "d"
                /\ Split(Substr(c[i].line, 3), " ")[1] \in {W_start_oauth, W_start_oauth2}}
    IN IF S = {} THEN Null ELSE Arg(Split(Substr(c[Max(S)].line, 3), " "), 2)
LatestSession(c, o) ==
    LET R == {n \in 1..Len(o) : o[n].kind = "redirect"}
    IN IF R = {} THEN EmptySession ELSE c[o[Max(R)].cmd].ret

\* C20: after every step the stored kind is the parameter of the start-oauth
\* dispatched last (null if none), whatever became of it, and the stored
\* session is the one returned by the start-oauth call that resolved last
\* (empty if none); a complete-oauth that calls the factory passes these two.
C20_LatestKindAndSession ==
    [][/\ oauthKind' = LatestKind(cmds')
       /\ oauthSession' = LatestSession(cmds', out')
       /\ \A i \in CompleteLines :
             (Dispatched(i) /\ cmds'[i].st = "pending")
             => LET c == calls'[Len(calls')]
                IN /\ c.cmd = i /\ c.fn = "runOAuth2"
                   /\ c.args[1] = LatestKind(cmds)
                   /\ c.args[2].session = LatestSession(cmds, out)]_vars

\* start-oauth A resolved, start-oauth B was dispatched and did not succeed,
\* and the complete-oauth that followed passed kind B with the session of A.
C20_Witness ==
    /\ Len(cmds) = 3
    /\ cmds[1].line = L_start_A /\ Settled(1) /\ cmds[1].ret \in Sessions
    /\ cmds[2].line = L_start_B /\ cmds[2].st \in {"pending", "rejected"}
    /\ 3 \in CompleteLines
    /\ \E n \in CallsFor(3) :
          calls[n].args[1] = <<"B">> /\ calls[n].args[2].session = cmds[1].ret

====
